---- MODULE Spec2Model ----
(***************************************************************************)
(* Model of demo/rp2040/src/main.rs: the bootstrap in main, the command    *)
(* server loop, the uart_recver ingest task, the logging_task heartbeat    *)
(* and the UART_MTX guard they share with the command handlers.            *)
(*                                                                         *)
(* The executor is single-core and cooperative: a task runs from one       *)
(* .await that suspends to the next, so every action below is one such     *)
(* segment of a task, or one event of the environment (the serial          *)
(* peripheral, the host, the clock).                                       *)
(***************************************************************************)
EXTENDS Integers, Sequences, FiniteSets, TLC

\* ------------------------------------------------------------------ bounds

\* Non-empty chunks the serial peripheral delivers in one run of the model.
MaxChunks == 2
\* Session runs that end (host disconnects) in one run of the model.
MaxFails == 2
\* Seconds the clock of the model advances.
MaxTime == 6
\* Times a command handler asks for the serial guard.
MaxRequests == 1
\* Non-empty chunks the peripheral delivers in the specifications of the
\* whole device.
SystemChunks == 1

\* ------------------------------------------------------- program constants

\* seq_no is a u16: wrapping_add works modulo 2^16.
U16Mod == 65536
\* let mut buf = [0u8; 128]
BufLen == 128
\* Ticker::every(Duration::from_secs(3))
HeartbeatSecs == 3
\* ASCII codes used by the number-to-hex formatting.
AsciiSpace == 32
AsciiZero == 48
AsciiA == 65
AsciiX == 88

\* --------------------------------------------------------------- inputs

\* The chunks one read of the peripheral can return (at most BufLen bytes).
Chunks == {<<>>, <<67>>, <<65, 66>>}
\* Outcomes of serial.read_ready(): Ok(true), Ok(false), Err(_).
ReadyOutcomes == {"OkTrue", "OkFalse", "Err"}
\* The 8-byte unique ids the flash chip of a booting device may hold.
BootIds == {<<0, 161, 178, 195, 212, 229, 246, 7>>}
\* The values a byte of the id takes in the formatting specification.
IdBytes == {0, 9, 175, 246, 255}
\* The ids the formatting specification draws from: the example of the
\* documentation and ids built from IdBytes in their first, middle and last bytes.
FormatIds ==
    BootIds \cup
    { <<a, b, 0, c, 161, 0, d, e>> : a \in IdBytes, b \in IdBytes, c \in IdBytes,
                                     d \in {9, 175}, e \in IdBytes }
\* Sequence numbers the ingest task can have reached when observation starts
\* (0 is the value at boot).
LateSeqs == {65534}

None == <<>>

VARIABLES
    flash,        \* what blocking_unique_id yields: None or the 8 id bytes
    pc_main,      \* "boot", "panicked" (unwrap failed), "running" (in server.run)
    unique_id,    \* the u64 as four 16-bit limbs, most significant first
    ser_buf,      \* the 16 characters of the serial string (ASCII codes)
    spawned,      \* the tasks spawned by main
    runs,         \* number of times server.run() has been invoked
    fails,        \* number of session runs that have ended
    connected,    \* whether a host is attached
    mtx,          \* UART_MTX: "unbuilt", "free" or "locked"
    guards,       \* the tasks that own a MutexGuard of UART_MTX
    pc_rx,        \* uart_recver: "unspawned","start","tick","lock","read","publish"
    seq_no,       \* uart_recver's sequence counter
    burst,        \* guard acquisitions of uart_recver since its last ticker tick
    lastPoll,     \* the last read attempt: outcome, and seq_no/frames before it
    skipped,      \* a read attempt without a frame happened since the last frame
    gapSeen,      \* such an attempt happened between the last two frames
    atEnd,        \* seq_no and the chunks read when the last session run ended
    supply,       \* non-empty chunks the peripheral still delivers
    chunksRead,   \* the non-empty chunks returned by serial.read, in order
    published,    \* the frames handed to sender.publish, in order
    pubRes,       \* the result of each publish: "pending", "ok", "failed"
    base,         \* non-empty chunks read before the first state of the model
    pc_h,         \* a command handler using the guard: "idle","waiting","holding"
    requests,     \* guard requests made by handlers
    waited,       \* the handler's last request had to suspend
    pc_log,       \* logging_task: "unspawned","start","tick","publish"
    now,          \* the clock, in seconds
    start,        \* logging_task's start instant
    expires,      \* logging_task's ticker: its next expiry
    hbLog         \* the liveness publishes attempted: when, elapsed, connected, result

vars == <<flash, pc_main, unique_id, ser_buf, spawned, runs, fails, connected,
          mtx, guards, pc_rx, seq_no, burst, lastPoll, skipped, gapSeen, atEnd,
          supply, chunksRead, published, pubRes, base, pc_h, requests, waited,
          pc_log, now, start, expires, hbLog>>

mainVars == <<pc_main, unique_id, ser_buf, spawned, runs, fails>>
mtxVars == <<mtx, guards>>
rxVars == <<pc_rx, seq_no, burst, lastPoll, skipped, gapSeen, supply,
            chunksRead, published, pubRes>>
logVars == <<pc_log, start, expires, hbLog>>
hVars == <<pc_h, requests, waited>>


\* ------------------------------------------------------------- identity

Some(v) == <<v>>

\* u64::from_be_bytes(id): the value of 8 bytes, most significant first, kept
\* as four 16-bit limbs.
from_be_bytes(id) == [i \in 1..4 |-> id[2 * i - 1] * 256 + id[2 * i]]

\* (Variant: an all-zero identity when the flash read fails.)
get_unique_id_or_zero(fl) ==
    IF fl = None THEN Some(<<0, 0, 0, 0>>) ELSE Some(from_be_bytes(fl[1]))
\* unique_id::get_unique_id: absent when the flash read fails.
get_unique_id(fl) == IF fl = None THEN None ELSE Some(from_be_bytes(fl[1]))

\* u64::to_be_bytes: the 8 bytes of the value, most significant first.
to_be_bytes(u) ==
    [i \in 1..8 |-> IF i % 2 = 1 THEN u[(i + 1) \div 2] \div 256
                                 ELSE u[i \div 2] % 256]

\* (Variant: lower-case digits for 10..15.)
hex_char_lower(v) ==
    IF v \in 0..9 THEN AsciiZero + v
    ELSE IF v \in 10..15 THEN AsciiA + 32 + (v - 10)
    ELSE AsciiX
\* match b >> 4 { v @ 0..10 => b'0' + v, v @ 10..16 => b'A' + (v - 10), _ => b'X' }
hex_char(v) ==
    IF v \in 0..9 THEN AsciiZero + v
    ELSE IF v \in 10..15 THEN AsciiA + (v - 10)
    ELSE AsciiX

\* b <<= 4 on a u8
shl4(b) == (b * 16) % 256

\* (Variant: `b <<= 4` left out, both characters show the high nibble.)
format_serial_noshift(u) ==
    [k \in 1..16 |-> hex_char(to_be_bytes(u)[(k + 1) \div 2] \div 16)]
\* The formatting loop of main: the bytes zipped with the 2-character chunks
\* of ser_buf, which starts as 16 spaces.
format_serial(u) ==
    LET bytes == to_be_bytes(u)
    IN  [k \in 1..16 |->
            IF (k + 1) \div 2 > Len(bytes) THEN AsciiSpace
            ELSE IF k % 2 = 1 THEN hex_char(bytes[(k + 1) \div 2] \div 16)
            ELSE hex_char(shl4(bytes[(k + 1) \div 2]) \div 16)]

\* ------------------------------------------------------------- main

Tasks == {"uart_recver", "usb_task", "logging_task"}
\* What server.run() can return: it only returns when the session has failed.
SessionResults == {"ConnectionClosed", "Other"}

\* (Variant: `break` when the host has closed the connection.)
main_loop_breaks_on_close(r) == IF r = "ConnectionClosed" THEN "returned" ELSE "running"
\* (Variant: the error of a session run ends main.)
main_loop_stops(r) == "returned"
\* loop { let _ = server.run().await; }: where main is after a session run
\* returned r.
main_loop(r) == "running"

\* main from its start to its first suspension in server.run().await.
main_boot ==
    /\ pc_main = "boot"
    /\ IF get_unique_id(flash) = None
       THEN /\ pc_main' = "panicked"
            /\ UNCHANGED <<unique_id, ser_buf, spawned, runs, mtx, pc_rx, pc_log>>
       ELSE /\ unique_id' = get_unique_id(flash)[1]
            /\ ser_buf' = format_serial(unique_id')
            /\ mtx' = "free"
            /\ spawned' = Tasks
            /\ pc_rx' = "start"
            /\ pc_log' = "start"
            /\ runs' = 1
            /\ pc_main' = "running"
    /\ UNCHANGED <<flash, fails, connected, guards, seq_no, burst, lastPoll,
                   skipped, gapSeen, atEnd, supply, chunksRead, published, pubRes,
                   base, hVars, now, start, expires, hbLog>>

\* server.run() returns r; the result is discarded and run() is invoked again.
main_session_end ==
    /\ pc_main = "running"
    /\ fails < MaxFails
    /\ \E r \in SessionResults :
        /\ pc_main' = main_loop(r)
        /\ runs' = IF pc_main' = "running" THEN runs + 1 ELSE runs
    /\ fails' = fails + 1
    /\ connected' = FALSE
    /\ atEnd' = [seq |-> seq_no, reads |-> Len(chunksRead)]
    /\ UNCHANGED <<flash, unique_id, ser_buf, spawned, mtxVars, rxVars, base, hVars,
                   logVars, now>>

\* The host attaches to the running session.
host_connect ==
    /\ pc_main = "running"
    /\ ~connected
    /\ connected' = TRUE
    /\ UNCHANGED <<flash, mainVars, atEnd, mtxVars, rxVars, base, hVars, logVars, now>>


\* ------------------------------------------------------------- UART_MTX

Rx == "uart_recver"
Handler == "handler"

\* (Variant: lock() succeeds whether or not the guard is locked.)
lock_always == TRUE
\* Mutex::lock succeeds at once when the guard is not locked; otherwise the
\* caller stays suspended and tries again when it is next polled. The guard is
\* not handed over: whoever is polled first with the guard unlocked gets it.
lock_free == mtx = "free"

\* ------------------------------------------------------------- uart_recver

SkipOutcomes == {"not_ready", "read_error", "zero"}

\* (Variant: saturating_add, which stays at u16::MAX.)
wrapping_add_saturating(s, n) == IF s + n >= U16Mod THEN U16Mod - 1 ELSE s + n
\* (Variant: a plain addition, without the wrap.)
wrapping_add_nowrap(s, n) == s + n
\* seq_no.wrapping_add(n)
wrapping_add(s, n) == (s + n) % U16Mod

\* What serial.read(&mut buf) leaves when it returns Ok: the chunk at the
\* start of the 128-byte buffer, and its length.
read_into_buf(chunk) ==
    [buf |-> chunk \o [i \in 1..(BufLen - Len(chunk)) |-> 0], used |-> Len(chunk)]

\* (Variant: &buf[..used - 1], which loses the last byte read.)
valid_drop_last(buf, used) == SubSeq(buf, 1, used - 1)
\* (Variant: the whole buffer instead of its first `used` bytes.)
valid_whole_buf(buf, used) == buf
\* let valid = &buf[..used];
valid_slice(buf, used) == SubSeq(buf, 1, used)

\* The record of a read attempt: its outcome, seq_no and the number of frames
\* before it, and whether uart_recver held a guard when it used the peripheral.
Poll(out, g) == [out |-> out, seq |-> seq_no, n |-> Len(published), held |-> Rx \in g]

\* (Variant: the guard outlives the loop body, so it is still held at the
\* ticker.)
uart_recver_ready_keeps_guard(g, r, b) ==
    /\ burst' = b
    /\ guards' = g
    /\ mtx' = "locked"
    /\ IF r = "OkTrue"
       THEN /\ pc_rx' = "read"
            /\ lastPoll' = Poll("reading", g)
            /\ UNCHANGED skipped
       ELSE /\ pc_rx' = "tick"
            /\ lastPoll' = Poll("not_ready", g)
            /\ skipped' = TRUE
\* uart_recver has just locked the guard (g are the guards now held, b counts
\* its acquisitions since the tick) and serial.read_ready() returns r: anything
\* but Ok(true) is `continue 'outer`, which drops the guard and goes back to
\* the ticker; Ok(true) starts serial.read with the guard held.
uart_recver_ready(g, r, b) ==
    /\ burst' = b
    /\ IF r = "OkTrue"
       THEN /\ guards' = g
            /\ mtx' = "locked"
            /\ pc_rx' = "read"
            /\ lastPoll' = Poll("reading", g)
            /\ UNCHANGED skipped
       ELSE /\ guards' = g \ {Rx}
            /\ mtx' = "free"
            /\ pc_rx' = "tick"
            /\ lastPoll' = Poll("not_ready", g)
            /\ skipped' = TRUE

\* First poll of the task: the ticker and seq_no are created.
uart_recver_start ==
    /\ pc_rx = "start"
    /\ seq_no' = 0
    /\ pc_rx' = "tick"
    /\ UNCHANGED <<flash, mainVars, atEnd, connected, mtxVars, burst, lastPoll, skipped,
                   gapSeen, supply, chunksRead, published, pubRes, base, hVars,
                   logVars, now>>

\* ticker.next() completes; the task asks for the guard, and either gets it
\* at once and queries the peripheral, or suspends in lock().
uart_recver_tick ==
    /\ pc_rx = "tick"
    /\ IF lock_free
       THEN \E r \in ReadyOutcomes : uart_recver_ready(guards \cup {Rx}, r, 1)
       ELSE /\ pc_rx' = "lock"
            /\ burst' = 0
            /\ UNCHANGED <<mtxVars, lastPoll, skipped>>
    /\ UNCHANGED <<flash, mainVars, atEnd, connected, seq_no, gapSeen, supply, chunksRead,
                   published, pubRes, base, hVars, logVars, now>>

\* The suspended lock() is polled again with the guard free.
uart_recver_locked ==
    /\ pc_rx = "lock"
    /\ lock_free
    /\ \E r \in ReadyOutcomes : uart_recver_ready(guards \cup {Rx}, r, 1)
    /\ UNCHANGED <<flash, mainVars, atEnd, connected, seq_no, gapSeen, supply, chunksRead,
                   published, pubRes, base, hVars, logVars, now>>

\* serial.read fails: `continue 'outer`.
uart_recver_read_error ==
    /\ pc_rx = "read"
    /\ guards' = guards \ {Rx}
    /\ mtx' = "free"
    /\ pc_rx' = "tick"
    /\ lastPoll' = Poll("read_error", guards)
    /\ skipped' = TRUE
    /\ UNCHANGED <<flash, mainVars, atEnd, connected, seq_no, burst, gapSeen, supply,
                   chunksRead, published, pubRes, base, hVars, logVars, now>>

\* (Variant: the test `used == 0` left out.)
uart_recver_got_zero_published(chunk) ==
    LET rd == read_into_buf(chunk)
        valid == valid_slice(rd.buf, rd.used)
    IN  /\ seq_no' = wrapping_add(seq_no, 1)
        /\ published' = Append(published, [seq |-> seq_no', data |-> valid])
        /\ pubRes' = Append(pubRes, "pending")
        /\ chunksRead' = IF chunk = <<>> THEN chunksRead ELSE Append(chunksRead, chunk)
        /\ supply' = IF chunk = <<>> THEN supply ELSE supply - 1
        /\ lastPoll' = Poll(IF chunk = <<>> THEN "zero" ELSE "data", guards)
        /\ gapSeen' = skipped
        /\ skipped' = FALSE
        /\ pc_rx' = "publish"
        /\ UNCHANGED mtxVars
\* (Variant: the guard is dropped once the read has returned, before the
\* publish.)
uart_recver_got_drops_guard(chunk) ==
    LET rd == read_into_buf(chunk)
        valid == valid_slice(rd.buf, rd.used)
    IN  /\ guards' = guards \ {Rx}
        /\ mtx' = "free"
        /\ IF rd.used = 0
           THEN /\ pc_rx' = "tick"
                /\ lastPoll' = Poll("zero", guards)
                /\ skipped' = TRUE
                /\ UNCHANGED <<seq_no, published, pubRes, chunksRead, supply, gapSeen>>
           ELSE /\ seq_no' = wrapping_add(seq_no, 1)
                /\ published' = Append(published, [seq |-> seq_no', data |-> valid])
                /\ pubRes' = Append(pubRes, "pending")
                /\ chunksRead' = Append(chunksRead, chunk)
                /\ supply' = supply - 1
                /\ lastPoll' = Poll("data", guards)
                /\ gapSeen' = skipped
                /\ skipped' = FALSE
                /\ pc_rx' = "publish"
\* (Variant: the guard is declared outside the loops, so `continue 'outer`
\* after a zero-length read does not drop it.)
uart_recver_got_zero_keeps_guard(chunk) ==
    LET rd == read_into_buf(chunk)
        valid == valid_slice(rd.buf, rd.used)
    IN  IF rd.used = 0
        THEN /\ pc_rx' = "tick"
             /\ lastPoll' = Poll("zero", guards)
             /\ skipped' = TRUE
             /\ UNCHANGED <<mtxVars, seq_no, published, pubRes, chunksRead, supply, gapSeen>>
        ELSE /\ seq_no' = wrapping_add(seq_no, 1)
             /\ published' = Append(published, [seq |-> seq_no', data |-> valid])
             /\ pubRes' = Append(pubRes, "pending")
             /\ chunksRead' = Append(chunksRead, chunk)
             /\ supply' = supply - 1
             /\ lastPoll' = Poll("data", guards)
             /\ gapSeen' = skipped
             /\ skipped' = FALSE
             /\ pc_rx' = "publish"
             /\ UNCHANGED mtxVars
\* serial.read returned Ok(used) with the chunk in buf; used = 0 is
\* `continue 'outer`, otherwise the frame is numbered and handed to publish.
uart_recver_got(chunk) ==
    LET rd == read_into_buf(chunk)
        valid == valid_slice(rd.buf, rd.used)
    IN  IF rd.used = 0
        THEN /\ guards' = guards \ {Rx}
             /\ mtx' = "free"
             /\ pc_rx' = "tick"
             /\ lastPoll' = Poll("zero", guards)
             /\ skipped' = TRUE
             /\ UNCHANGED <<seq_no, published, pubRes, chunksRead, supply, gapSeen>>
        ELSE /\ seq_no' = wrapping_add(seq_no, 1)
             /\ published' = Append(published, [seq |-> seq_no', data |-> valid])
             /\ pubRes' = Append(pubRes, "pending")
             /\ chunksRead' = Append(chunksRead, chunk)
             /\ supply' = supply - 1
             /\ lastPoll' = Poll("data", guards)
             /\ gapSeen' = skipped
             /\ skipped' = FALSE
             /\ pc_rx' = "publish"
             /\ UNCHANGED mtxVars

uart_recver_read_ok ==
    /\ pc_rx = "read"
    /\ \E chunk \in Chunks :
        /\ Len(chunk) <= BufLen
        /\ chunk # <<>> => supply > 0
        /\ uart_recver_got(chunk)
    /\ UNCHANGED <<flash, mainVars, atEnd, connected, burst, base, hVars, logVars, now>>

\* What a publish can return: Ok only with a host attached.
PublishResults == IF connected THEN {"ok", "failed"} ELSE {"failed"}

\* (Variant: a failed publish ends the task.)
uart_recver_published_stop_on_failure(res, r) ==
    /\ seq_no' = seq_no
    /\ IF res = "failed"
       THEN /\ guards' = guards \ {Rx}
            /\ mtx' = "free"
            /\ pc_rx' = "returned"
            /\ UNCHANGED <<burst, lastPoll, skipped>>
       ELSE uart_recver_ready((guards \ {Rx}) \cup {Rx}, r, burst + 1)
\* (Variant: a failed publish restarts the numbering.)
uart_recver_published_reset_on_failure(res, r) ==
    /\ seq_no' = IF res = "failed" THEN 0 ELSE seq_no
    /\ uart_recver_ready((guards \ {Rx}) \cup {Rx}, r, burst + 1)
\* (Variant: `continue 'outer` after the publish, one read per tick.)
uart_recver_published_no_burst(res, r) ==
    /\ seq_no' = seq_no
    /\ guards' = guards \ {Rx}
    /\ mtx' = "free"
    /\ pc_rx' = "tick"
    /\ UNCHANGED <<burst, lastPoll, skipped>>
\* publish returned res, which `let _ =` discards; the guard is dropped at the
\* end of the loop body and locked again at the top of the loop without a
\* suspension in between, and the peripheral is queried again (r).
uart_recver_published(res, r) ==
    /\ seq_no' = seq_no
    /\ uart_recver_ready((guards \ {Rx}) \cup {Rx}, r, burst + 1)

uart_recver_publish_done ==
    /\ pc_rx = "publish"
    /\ \E res \in PublishResults, r \in ReadyOutcomes :
        /\ pubRes' = [pubRes EXCEPT ![Len(pubRes)] = res]
        /\ uart_recver_published(res, r)
    /\ UNCHANGED <<flash, mainVars, atEnd, connected, gapSeen, supply, chunksRead,
                   published, base, hVars, logVars, now>>

\* ------------------------------------------------------------- handlers

\* A command handler dispatched by the running session asks for the guard:
\* it gets it at once when it is free, and suspends in lock() otherwise.
handler_request ==
    /\ pc_main = "running"
    /\ connected
    /\ pc_h = "idle"
    /\ requests < MaxRequests
    /\ requests' = requests + 1
    /\ IF lock_free
       THEN /\ guards' = guards \cup {Handler}
            /\ mtx' = "locked"
            /\ pc_h' = "holding"
            /\ waited' = FALSE
       ELSE /\ pc_h' = "waiting"
            /\ waited' = TRUE
            /\ UNCHANGED mtxVars
    /\ UNCHANGED <<flash, mainVars, atEnd, connected, rxVars, base, logVars, now>>

\* The suspended handler is polled again with the guard free.
handler_acquire ==
    /\ pc_h = "waiting"
    /\ lock_free
    /\ guards' = guards \cup {Handler}
    /\ mtx' = "locked"
    /\ pc_h' = "holding"
    /\ UNCHANGED <<flash, mainVars, atEnd, connected, rxVars, base, requests, waited,
                   logVars, now>>

\* The handler is done with the peripheral and drops the guard.
handler_release ==
    /\ pc_h = "holding"
    /\ guards' = guards \ {Handler}
    /\ mtx' = "free"
    /\ pc_h' = "idle"
    /\ UNCHANGED <<flash, mainVars, atEnd, connected, rxVars, base, requests, waited,
                   logVars, now>>

\* ------------------------------------------------------------- logging_task

\* First poll of the task: Ticker::every(3 s) and start = Instant::now().
logging_task_start ==
    /\ pc_log = "start"
    /\ start' = now
    /\ expires' = now + HeartbeatSecs
    /\ pc_log' = "tick"
    /\ UNCHANGED <<flash, mainVars, atEnd, connected, mtxVars, rxVars, base, hVars, hbLog, now>>

\* start.elapsed() at time t
elapsed(t) == t - start

\* ticker.next() completes (the expiry has passed; the ticker moves on by its
\* period) and the liveness message with start.elapsed() is handed to the
\* sender.
logging_task_tick ==
    /\ pc_log = "tick"
    /\ now >= expires
    /\ expires' = expires + HeartbeatSecs
    /\ hbLog' = Append(hbLog, [at |-> now, elapsed |-> elapsed(now),
                               conn |-> connected, res |-> "pending"])
    /\ pc_log' = "publish"
    /\ UNCHANGED <<flash, mainVars, atEnd, connected, mtxVars, rxVars, base, hVars, start, now>>

\* (Variant: a failed publish ends the task.)
logging_task_loop_stops(res) == IF res = "failed" THEN "returned" ELSE "tick"
\* Where logging_task is after its publish returned res (`let _ =`).
logging_task_loop(res) == "tick"

logging_task_publish_done ==
    /\ pc_log = "publish"
    /\ \E res \in PublishResults :
        /\ hbLog' = [hbLog EXCEPT ![Len(hbLog)].res = res]
        /\ pc_log' = logging_task_loop(res)
    /\ UNCHANGED <<flash, mainVars, atEnd, connected, mtxVars, rxVars, base, hVars, start,
                   expires, now>>

\* One second passes.
clock_tick ==
    /\ now < MaxTime
    /\ now' = now + 1
    /\ UNCHANGED <<flash, mainVars, atEnd, connected, mtxVars, rxVars, base, hVars, logVars>>

\* ------------------------------------------------------------- specification

NoPoll == [out |-> "none", seq |-> 0, n |-> 0, held |-> FALSE]
NoEnd == [seq |-> 0, reads |-> 0]

\* The device at reset, with the flash chip answering one of fls and a
\* peripheral that will deliver n non-empty chunks.
InitOf(fls, n) ==
    /\ flash \in fls
    /\ pc_main = "boot"
    /\ unique_id = None
    /\ ser_buf = None
    /\ spawned = {}
    /\ runs = 0
    /\ fails = 0
    /\ connected = FALSE
    /\ mtx = "unbuilt"
    /\ guards = {}
    /\ pc_rx = "unspawned"
    /\ seq_no = 0
    /\ burst = 0
    /\ lastPoll = NoPoll
    /\ skipped = FALSE
    /\ gapSeen = FALSE
    /\ atEnd = NoEnd
    /\ supply = n
    /\ chunksRead = <<>>
    /\ published = <<>>
    /\ pubRes = <<>>
    /\ base = 0
    /\ pc_h = "idle"
    /\ requests = 0
    /\ waited = FALSE
    /\ pc_log = "unspawned"
    /\ now = 0
    /\ start = 0
    /\ expires = 0
    /\ hbLog = <<>>

\* The device at reset, with the flash chip answering ids or failing.
InitWith(ids) == InitOf({None} \cup {Some(id) : id \in ids}, MaxChunks)

Init == InitWith(BootIds)

\* The device at reset, with a peripheral that delivers SystemChunks chunks.
InitSystem == InitOf({None} \cup {Some(id) : id \in BootIds}, SystemChunks)

\* The device some time after a successful boot: main is in server.run(),
\* the tasks wait for their tickers, and uart_recver has read and numbered
\* `base` non-empty chunks so far.
InitLate ==
    /\ flash \in {Some(id) : id \in BootIds}
    /\ pc_main = "running"
    /\ unique_id = get_unique_id(flash)[1]
    /\ ser_buf = format_serial(unique_id)
    /\ spawned = Tasks
    /\ runs = 1
    /\ fails = 0
    /\ connected = FALSE
    /\ mtx = "free"
    /\ guards = {}
    /\ pc_rx = "tick"
    /\ base \in LateSeqs
    /\ seq_no = base % U16Mod
    /\ burst = 0
    /\ lastPoll = NoPoll
    /\ skipped = FALSE
    /\ gapSeen = FALSE
    /\ atEnd = NoEnd
    /\ supply = MaxChunks
    /\ chunksRead = <<>>
    /\ published = <<>>
    /\ pubRes = <<>>
    /\ pc_h = "idle"
    /\ requests = 0
    /\ waited = FALSE
    /\ pc_log = "tick"
    /\ now = 0
    /\ start = 0
    /\ expires = HeartbeatSecs
    /\ hbLog = <<>>

\* The device at reset, with the ids of the formatting specification.
InitId == InitWith(FormatIds)

MainNext ==
    \/ main_boot
    \/ main_session_end
    \/ host_connect

IngestNext ==
    \/ uart_recver_start
    \/ uart_recver_tick
    \/ uart_recver_locked
    \/ uart_recver_read_error
    \/ uart_recver_read_ok
    \/ uart_recver_publish_done
    \/ handler_request
    \/ handler_acquire
    \/ handler_release

HeartbeatNext ==
    \/ logging_task_start
    \/ logging_task_tick
    \/ logging_task_publish_done
    \/ clock_tick

Next == MainNext \/ IngestNext \/ HeartbeatNext

\* The whole device from reset.
Spec == Init /\ [][Next]_vars

\* main, the ingest task and the handlers, from reset or from a late state
\* of the ingest task. logging_task and the clock neither read nor write a
\* variable of these tasks, so leaving their steps out changes nothing the
\* ingest claims read.
SpecIngest == (Init \/ InitLate) /\ [][MainNext \/ IngestNext]_vars

\* main, the heartbeat task and the clock, from reset.
SpecHeartbeat == Init /\ [][MainNext \/ HeartbeatNext]_vars

\* The bootstrap alone, over the ids of FormatIds.
SpecId == InitId /\ [][main_boot]_vars

\* The device after a successful boot, when uart_recver has taken the guard
\* at its first tick, found data ready and is suspended in serial.read.
InitStalled ==
    /\ flash \in {Some(id) : id \in BootIds}
    /\ pc_main = "running"
    /\ unique_id = get_unique_id(flash)[1]
    /\ ser_buf = format_serial(unique_id)
    /\ spawned = Tasks
    /\ runs = 1
    /\ fails = 0
    /\ connected = FALSE
    /\ mtx = "locked"
    /\ guards = {Rx}
    /\ pc_rx = "read"
    /\ base = 0
    /\ seq_no = 0
    /\ burst = 1
    /\ lastPoll = [out |-> "reading", seq |-> 0, n |-> 0, held |-> TRUE]
    /\ skipped = FALSE
    /\ gapSeen = FALSE
    /\ atEnd = NoEnd
    /\ supply = MaxChunks
    /\ chunksRead = <<>>
    /\ published = <<>>
    /\ pubRes = <<>>
    /\ pc_h = "idle"
    /\ requests = 0
    /\ waited = FALSE
    /\ pc_log = "start"
    /\ now = 0
    /\ start = 0
    /\ expires = 0
    /\ hbLog = <<>>

\* What can happen while that read does not complete: uart_recver takes no
\* step, and no guard is dropped, so no handler gets past its request.
StalledNext ==
    \/ main_session_end
    \/ host_connect
    \/ handler_request
    \/ HeartbeatNext

\* The device with a serial read that never completes.
SpecStalled == InitStalled /\ [][StalledNext]_vars

\* The steps of uart_recver when no handler asks for the guard (lock() never
\* suspends then).
RecverNext ==
    \/ uart_recver_start
    \/ uart_recver_tick
    \/ uart_recver_read_error
    \/ uart_recver_read_ok
    \/ uart_recver_publish_done

SystemNext == MainNext \/ RecverNext \/ HeartbeatNext

\* main, its three tasks and the clock, from reset; no command handler asks
\* for the guard.
SpecSystem == InitSystem /\ [][SystemNext]_vars

\* The device once main is in server.run() and the two tasks have had their
\* first poll and wait for their tickers; no host is attached.
InitBooted ==
    /\ flash \in {Some(id) : id \in BootIds}
    /\ pc_main = "running"
    /\ unique_id = get_unique_id(flash)[1]
    /\ ser_buf = format_serial(unique_id)
    /\ spawned = Tasks
    /\ runs = 1
    /\ fails = 0
    /\ connected = FALSE
    /\ mtx = "free"
    /\ guards = {}
    /\ pc_rx = "tick"
    /\ base = 0
    /\ seq_no = 0
    /\ burst = 0
    /\ lastPoll = NoPoll
    /\ skipped = FALSE
    /\ gapSeen = FALSE
    /\ atEnd = NoEnd
    /\ supply = SystemChunks
    /\ chunksRead = <<>>
    /\ published = <<>>
    /\ pubRes = <<>>
    /\ pc_h = "idle"
    /\ requests = 0
    /\ waited = FALSE
    /\ pc_log = "tick"
    /\ now = 0
    /\ start = 0
    /\ expires = HeartbeatSecs
    /\ hbLog = <<>>

\* The steps of the booted device: the loops of main and of the two tasks,
\* and the clock. No host attaches, so every publish returns an error.
BootedNext ==
    \/ main_session_end
    \/ uart_recver_tick
    \/ uart_recver_read_error
    \/ uart_recver_read_ok
    \/ uart_recver_publish_done
    \/ logging_task_tick
    \/ logging_task_publish_done
    \/ clock_tick

\* What the scheduler and the environment guarantee: a task that can run is
\* run, timers fire, every publish returns and every session run ends.
\* Nothing makes a serial read return.
Fairness ==
    /\ WF_vars(main_session_end)
    /\ WF_vars(uart_recver_tick)
    /\ WF_vars(uart_recver_publish_done)
    /\ WF_vars(logging_task_tick)
    /\ WF_vars(logging_task_publish_done)
    /\ WF_vars(clock_tick)

\* The booted device under these guarantees.
SpecBootedFair == InitBooted /\ [][BootedNext]_vars /\ Fairness



\* ------------------------------------------------------------- claims

Last(q) == q[Len(q)]

\* C1: for any two frames that uart_recver publishes one after the other, the
\* sequence tag of the second is the tag of the first plus 1 modulo 65536,
\* whatever read attempts without a frame happened in between.
C1_TagsConsecutive ==
    \A i \in 1..(Len(published) - 1) :
        published[i + 1].seq = (published[i].seq + 1) % U16Mod

\* Two frames with a frameless read attempt between them, the second one
\* carrying the tag that wrapped to 0.
C1_Witness ==
    /\ Len(published) >= 2
    /\ gapSeen
    /\ Last(published).seq = 0
    /\ published[Len(published) - 1].seq = U16Mod - 1

\* C2: the k-th non-empty chunk read since boot is published as the frame
\* tagged k mod 65536 whose data are exactly the bytes of that chunk, in order.
C2_KthChunkIsFrameK ==
    /\ Len(published) = Len(chunksRead)
    /\ \A i \in 1..Len(published) :
        /\ published[i].seq = (base + i) % U16Mod
        /\ published[i].data = chunksRead[i]

\* From boot, the chunks AB then C were read and published as (1, AB), (2, C).
C2_Witness ==
    /\ base = 0
    /\ chunksRead = << <<65, 66>>, <<67>> >>
    /\ published = << [seq |-> 1, data |-> <<65, 66>>], [seq |-> 2, data |-> <<67>>] >>

\* C3: a read attempt that ends not ready, with a read error or with zero
\* bytes publishes no frame and leaves seq_no unchanged, drops the guard, and
\* leaves uart_recver waiting for its ticker: it only goes on (to lock the
\* guard, burst = 0) once the ticker has fired.
C3_SkipPublishesNothing ==
    lastPoll.out \in SkipOutcomes =>
        /\ pc_rx = "tick" \/ (pc_rx = "lock" /\ burst = 0)
        /\ Rx \notin guards
        /\ seq_no = lastPoll.seq
        /\ Len(published) = lastPoll.n

\* A zero-length read after a first frame: the task is back at its ticker.
C3_Witness ==
    /\ lastPoll.out = "zero"
    /\ pc_rx = "tick"
    /\ Len(published) = 1
    /\ seq_no = published[1].seq

\* C4: a failed publish does not stop uart_recver and is not retried: the
\* task never leaves its loop, after a failure it is polling again, no other
\* frame carries the failed frame's tag, and the next non-empty read is handed
\* to publish with the next tag.
C4_PublishFailureIgnored ==
    /\ pc_rx # "returned"
    /\ Len(pubRes) = Len(published)
    /\ Len(published) = Len(chunksRead)
    /\ \A i \in 1..Len(pubRes) :
        pubRes[i] = "failed" =>
            /\ i = Len(pubRes) => pc_rx \in {"tick", "lock", "read"}
            /\ \A j \in 1..Len(published) :
                j # i => published[j].seq # published[i].seq
            /\ i < Len(pubRes) =>
                /\ published[i + 1].seq = (published[i].seq + 1) % U16Mod
                /\ published[i + 1].data = chunksRead[i + 1]

\* The publish of the first frame failed, and the second frame is being
\* published.
C4_Witness ==
    /\ Len(published) = 2
    /\ pubRes[1] = "failed"
    /\ pc_rx = "publish"

\* C5: once N session runs have ended with a failure, server.run() has been
\* invoked N+1 times and main is in server.run(), never in a terminal state.
C5_RunsAfterFailures ==
    pc_main \notin {"boot", "panicked"} =>
        /\ pc_main = "running"
        /\ runs = fails + 1

\* Two session runs have failed and the third is running.
C5_Witness ==
    /\ fails = 2
    /\ runs = 3
    /\ pc_main = "running"

\* C6: at most one task holds a guard of UART_MTX, and uart_recver holds one
\* whenever it uses the peripheral (read_ready, read).
C6_GuardExclusive ==
    /\ Cardinality(guards) <= 1
    /\ mtx = "locked" <=> guards # {}
    /\ pc_rx = "read" => Rx \in guards
    /\ lastPoll.out # "none" => lastPoll.held

\* uart_recver is inside a read while a handler is suspended on the guard.
C6_Witness ==
    /\ pc_rx = "read"
    /\ pc_h = "waiting"
    /\ guards = {Rx}

\* C7 as claimed: a task that asks for the guard while uart_recver holds it
\* stays suspended until uart_recver releases it and then gets it before
\* uart_recver acquires it again; and it never holds the guard during a read
\* of uart_recver.
C7_Original ==
    /\ [](pc_rx = "read" => Handler \notin guards)
    /\ [][(pc_h = "waiting" /\ pc_h' = "holding") => Rx \notin guards]_vars
    /\ [][pc_h = "waiting" => ~(pc_rx # "read" /\ pc_rx' = "read")]_vars

\* C7 as amended: the suspended task never holds the guard during a read of
\* uart_recver, it acquires the guard only in a state where the guard is
\* free, and uart_recver holds no guard while it is suspended at its ticker
\* or in lock(), so that the suspended task can lock the guard then;
\* uart_recver may lock the guard again before the suspended task does.
C7_WaiterAcquiresWhenFree ==
    /\ [](pc_rx = "read" => Handler \notin guards)
    /\ [][(pc_h = "waiting" /\ pc_h' = "holding") =>
            (Rx \notin guards /\ mtx = "free")]_vars
    /\ []((pc_h = "waiting" /\ pc_rx \in {"tick", "lock"}) =>
            (Rx \notin guards /\ mtx = "free"))

\* The handler had to suspend on the guard held by uart_recver and holds it now.
C7_Witness ==
    /\ pc_h = "holding"
    /\ waited
    /\ guards = {Handler}

\* Decoding of the serial string: two hexadecimal characters per byte, most
\* significant byte first.
hex_val(c) ==
    IF c \in AsciiZero..(AsciiZero + 9) THEN c - AsciiZero
    ELSE IF c \in AsciiA..(AsciiA + 5) THEN c - AsciiA + 10
    ELSE -1
decode_bytes(str) == [i \in 1..8 |-> hex_val(str[2 * i - 1]) * 16 + hex_val(str[2 * i])]

\* C8: decoding the 16-character serial string built by main, byte pair by
\* byte pair as hexadecimal, gives back the identity value.
C8_RoundTrip ==
    pc_main = "running" =>
        /\ Len(ser_buf) = 16
        /\ decode_bytes(ser_buf) = flash[1]
        /\ from_be_bytes(decode_bytes(ser_buf)) = unique_id

\* The identity 0x00A1B2C3D4E5F607 gave the string "00A1B2C3D4E5F607".
C8_Witness ==
    /\ pc_main = "running"
    /\ unique_id = <<161, 45763, 54501, 62983>>
    /\ ser_buf = <<48, 48, 65, 49, 66, 50, 67, 51, 68, 52, 69, 53, 70, 54, 48, 55>>

\* C9: every tick of logging_task's ticker gives exactly one liveness publish
\* carrying the time elapsed since the task's start; the elapsed values never
\* decrease; and neither a failed publish nor a session end stops the task or
\* moves its ticker off the 3 s cadence.
C9_Heartbeat ==
    /\ pc_log \in {"unspawned", "start", "tick", "publish"}
    /\ pc_log \in {"tick", "publish"} =>
        expires = start + HeartbeatSecs * (Len(hbLog) + 1)
    /\ pc_log = "publish" <=> (hbLog # <<>> /\ Last(hbLog).res = "pending")
    /\ \A i \in 1..Len(hbLog) :
        /\ hbLog[i].elapsed = hbLog[i].at - start
        /\ hbLog[i].elapsed >= HeartbeatSecs * i
        /\ hbLog[i].at <= now
        /\ \A j \in 1..Len(hbLog) : i < j => hbLog[i].elapsed <= hbLog[j].elapsed

\* Two heartbeats: the first with no host attached, its publish failed; the
\* second delivered to a host after a session had ended.
C9_Witness ==
    /\ Len(hbLog) = 2
    /\ ~hbLog[1].conn
    /\ hbLog[1].res = "failed"
    /\ hbLog[2].res = "ok"
    /\ fails >= 1

\* C10: the sequence counter is never reset: it is the number of non-empty
\* chunks read, modulo 65536, and after a session run has ended it is the
\* value it had then plus the non-empty chunks read since, as is the tag of
\* every frame published since.
C10_CounterNotReset ==
    /\ pc_rx \notin {"unspawned", "start"} =>
        seq_no = (base + Len(chunksRead)) % U16Mod
    /\ fails > 0 =>
        /\ seq_no = (atEnd.seq + Len(chunksRead) - atEnd.reads) % U16Mod
        /\ \A i \in 1..Len(published) :
            i > atEnd.reads => published[i].seq = (atEnd.seq + i - atEnd.reads) % U16Mod

\* A frame was published before a session run ended, and the first frame after
\* the host attached again has been delivered.
C10_Witness ==
    /\ fails >= 1
    /\ connected
    /\ atEnd.reads >= 1
    /\ Len(published) = atEnd.reads + 1
    /\ Last(pubRes) = "ok"

\* C11: seq_no stays within 0..65535; when it is 65535 and a non-empty chunk
\* is read, it becomes 0, the frame handed to publish is tagged 0, and
\* uart_recver goes on to the publish: it neither panics nor leaves its loop.
C11_WrapStep ==
    (seq_no = U16Mod - 1 /\ chunksRead' # chunksRead) =>
        /\ seq_no' = 0
        /\ Len(published') = Len(published) + 1
        /\ Last(published').seq = 0
        /\ pc_rx' = "publish"
C11_WrapToZero ==
    /\ [](seq_no \in 0..(U16Mod - 1))
    /\ [](pc_rx \in {"unspawned", "start", "tick", "lock", "read", "publish"})
    /\ [][C11_WrapStep]_vars

\* The frame tagged 65535 is followed by the frame tagged 0, which has been
\* delivered, and the task is polling again.
C11_Witness ==
    /\ Len(published) = 2
    /\ published[1].seq = U16Mod - 1
    /\ published[2].seq = 0
    /\ seq_no = 0
    /\ pubRes[2] = "ok"
    /\ pc_rx \in {"tick", "read"}

\* C12: whenever uart_recver is suspended waiting for its ticker (or has not
\* yet asked for the guard again), it owns no guard, and UART_MTX is not left
\* locked without an owner: every way out of a read attempt has dropped it.
C12_NoGuardAtTicker ==
    /\ pc_rx \in {"unspawned", "start", "tick", "lock"} => Rx \notin guards
    /\ mtx = "locked" => guards # {}
    /\ (pc_rx = "tick" /\ pc_h # "holding") => mtx = "free"

\* Back at the ticker after a completed publish and a second read attempt
\* that found nothing ready; nobody holds the guard.
C12_Witness ==
    /\ pc_rx = "tick"
    /\ lastPoll.out = "not_ready"
    /\ burst = 2
    /\ Len(published) = 1
    /\ pubRes[1] # "pending"
    /\ guards = {}
    /\ mtx = "free"

\* C13: when a publish has completed, uart_recver queries the peripheral
\* again in the same step, without waiting for its ticker; from the first
\* read of such a burst to its end uart_recver owns the guard in every state
\* in which another task can run, and no other task acquires the guard.
C13_AfterPublish ==
    (pc_rx = "publish" /\ pc_rx' # "publish") =>
        /\ burst' = burst + 1
        /\ lastPoll'.n = Len(published)
        /\ lastPoll'.held
        /\ Rx \in guards
        /\ pc_rx' = "read" => (lastPoll'.out = "reading" /\ guards' = {Rx})
        /\ pc_rx' # "read" => (lastPoll'.out = "not_ready" /\ pc_rx' = "tick")
C13_NoOtherAcquires ==
    pc_rx \in {"read", "publish"} => (Handler \in guards' => Handler \in guards)
C14_StallBlocksGuardUsers ==
    /\ pc_rx = "read" /\ guards = {Rx} /\ mtx = "locked"
    /\ pc_h \in {"idle", "waiting"}
    /\ requests > 0 => pc_h = "waiting"
    /\ pc_h = "waiting" => ~ENABLED handler_acquire
    /\ ~ENABLED handler_release
    /\ pc_main = "running"
    /\ fails < MaxFails => ENABLED main_session_end
    /\ pc_log \in {"start", "tick", "publish"}
    /\ pc_log = "start" => ENABLED logging_task_start
    /\ (pc_log = "tick" /\ now >= expires) => ENABLED logging_task_tick
    /\ pc_log = "publish" => ENABLED logging_task_publish_done

\* C14 as stated: with the read stalled, every other task that waits for
\* something can go on, also one that waits for the guard.
C14_Original ==
    /\ pc_h = "waiting" => ENABLED handler_acquire
    /\ pc_main = "running"
    /\ fails < MaxFails => ENABLED main_session_end
    /\ (pc_log = "tick" /\ now >= expires) => ENABLED logging_task_tick
    /\ pc_log = "publish" => ENABLED logging_task_publish_done

\* With the read stalled and a handler suspended on the guard, two liveness
\* messages have been emitted and two session runs have ended and restarted.
C14_Witness ==
    /\ pc_rx = "read"
    /\ pc_h = "waiting"
    /\ Len(hbLog) = 2
    /\ Last(hbLog).res # "pending"
    /\ fails = 2
    /\ runs = 3

\* C15: when a session run ends, whatever it returned, main is in
\* server.run() again in the same step (one more run than before), and
\* uart_recver and logging_task are where they were; no task is ever at a
\* position it cannot leave its loop from.
C15_SessionEnd ==
    fails' # fails =>
        /\ pc_main = "running"
        /\ fails' = fails + 1
        /\ pc_main' = "running"
        /\ runs' = runs + 1
        /\ spawned' = spawned
        /\ <<pc_rx, seq_no, guards, pc_log, expires>>' = <<pc_rx, seq_no, guards, pc_log, expires>>
C15_NoTerminalState ==
    /\ [][C15_SessionEnd]_vars
    /\ [](flash # None => pc_main \in {"boot", "running"})
    /\ [](pc_main = "running" =>
            /\ spawned = Tasks
            /\ pc_rx \in {"start", "tick", "read", "publish"}
            /\ pc_log \in {"start", "tick", "publish"})

\* After two session runs have ended, main is in its third run, uart_recver
\* has handed a frame to publish and logging_task its second liveness message.
C15_Witness ==
    /\ fails = 2
    /\ runs = 3
    /\ pc_main = "running"
    /\ Len(published) > atEnd.reads
    /\ pc_rx = "publish"
    /\ Len(hbLog) = 2
    /\ pc_log = "publish"

\* C16: when the flash read fails, so that get_unique_id returns absent, main
\* halts in its bootstrap: no identity and no serial string exist, UART_MTX
\* is never built, no task is spawned, server.run() is never called, no host
\* ever attaches, nothing is ever handed to publish, and neither main nor a
\* task can take a step afterwards.
C16_BootHaltsWithoutId ==
    flash = None =>
        /\ pc_main \in {"boot", "panicked"}
        /\ unique_id = None
        /\ ser_buf = None
        /\ mtx = "unbuilt"
        /\ guards = {}
        /\ spawned = {}
        /\ pc_rx = "unspawned"
        /\ pc_log = "unspawned"
        /\ runs = 0
        /\ ~connected
        /\ published = <<>>
        /\ hbLog = <<>>
        /\ pc_main = "panicked" =>
            ~ENABLED (MainNext \/ RecverNext \/ logging_task_start \/ logging_task_tick)

\* The flash read failed and main has panicked on the unwrap.
C16_Witness ==
    /\ flash = None
    /\ pc_main = "panicked"

\* The character the documentation gives for a nibble: '0'..'9', 'A'..'F'.
HexDigits == <<48, 49, 50, 51, 52, 53, 54, 55, 56, 57, 65, 66, 67, 68, 69, 70>>

\* C17: the serial string has exactly 16 characters; for each byte i of the
\* identity, most significant first, character 2i is the hexadecimal digit of
\* its high nibble and character 2i+1 that of its low nibble (i from 0),
\* upper case, leading zeros kept; no character is the space filler or 'X'.
C17_SerialString ==
    pc_main = "running" =>
        /\ Len(ser_buf) = 16
        /\ \A i \in 0..7 :
            /\ ser_buf[2 * i + 1] = HexDigits[(flash[1][i + 1] \div 16) + 1]
            /\ ser_buf[2 * i + 2] = HexDigits[(flash[1][i + 1] % 16) + 1]
        /\ \A k \in 1..16 : ser_buf[k] \notin {AsciiSpace, AsciiX}
        /\ to_be_bytes(unique_id) = flash[1]

\* The identity 0x000900AFA10009FF gave "000900AFA10009FF": leading zeros,
\* digits and letters.
C17_Witness ==
    /\ pc_main = "running"
    /\ flash = Some(<<0, 9, 0, 175, 161, 0, 9, 255>>)
    /\ ser_buf = <<48, 48, 48, 57, 48, 48, 65, 70, 65, 49, 48, 48, 48, 57, 70, 70>>

\* C18: uart_recver owns the guard in every state in which its publish is in
\* progress; while it is, no other task acquires the guard, a task that asks
\* for it is suspended, and a suspended task stays suspended for as long as
\* the publish has not returned.
C18_NoAcquireInPublish ==
    pc_rx = "publish" =>
        /\ Handler \in guards' => Handler \in guards
        /\ requests' # requests => pc_h' = "waiting"
        /\ (pc_rx' = "publish" /\ pc_h = "waiting") => pc_h' = "waiting"
C18_GuardHeldAcrossPublish ==
    /\ [](pc_rx = "publish" =>
            /\ guards = {Rx}
            /\ mtx = "locked"
            /\ lastPoll.out = "data" /\ lastPoll.held
            /\ Last(pubRes) = "pending"
            /\ ~ENABLED handler_acquire)
    /\ [][C18_NoAcquireInPublish]_vars

\* A handler asked for the guard while the first frame was being published
\* and is suspended.
C18_Witness ==
    /\ pc_rx = "publish"
    /\ Len(published) = 1
    /\ atEnd.reads = 1
    /\ pc_h = "waiting"
    /\ guards = {Rx}

\* The bytes of a sequence of byte strings, one after the other.
RECURSIVE Concat(_)
Concat(q) == IF q = <<>> THEN <<>> ELSE Head(q) \o Concat(Tail(q))

\* C19: the payloads of the frames handed to publish, concatenated in order,
\* are the bytes returned by the successful reads, in order: nothing is
\* duplicated, dropped or reordered, also when publishes fail, sessions end
\* or reads return nothing in between; every payload has 1 to 128 bytes.
C19_PayloadsAreTheBytesRead ==
    /\ Concat([i \in 1..Len(published) |-> published[i].data]) = Concat(chunksRead)
    /\ \A i \in 1..Len(published) : Len(published[i].data) \in 1..BufLen
    /\ \A i \in 1..Len(chunksRead) : Len(chunksRead[i]) \in 1..BufLen

\* The bytes C, then A B were read in two reads with a zero-length read
\* before the second, and the first publish failed.
C19_Witness ==
    /\ Concat([i \in 1..Len(published) |-> published[i].data]) = <<67, 65, 66>>
    /\ Len(published) = 2
    /\ gapSeen
    /\ pubRes[1] = "failed"

\* Every serial read that has started returns.
ReadsComplete == WF_vars(uart_recver_read_ok \/ uart_recver_read_error)

\* Some task of the booted device can take a step.
C20_SomeTaskCanStep ==
    pc_main = "running" =>
        ENABLED (RecverNext \/ main_session_end \/ logging_task_start
                    \/ logging_task_tick \/ logging_task_publish_done)

\* main and logging_task go on: every session run that starts ends and is
\* followed by another, and logging_task emits every liveness message that
\* falls due and is back at its ticker (within the bounds of the model).
C20_MainAndHeartbeatProgress ==
    /\ []<>(flash = None \/ (pc_main = "running" /\ runs = MaxFails + 1))
    /\ []<>(flash = None \/ (pc_log = "tick" /\ expires > MaxTime))

\* uart_recver is not left in its first poll or in a publish.
C20_RecverProgress ==
    []<>(flash = None \/ pc_rx \in {"tick", "read"})

\* C20 as stated: timers, publishes and session runs are all that has to
\* complete for every task to go round its loop again and again, uart_recver
\* included.
C20_Original ==
    /\ []C20_SomeTaskCanStep
    /\ C20_MainAndHeartbeatProgress
    /\ []<>(flash = None \/ pc_rx = "tick")

\* C20: after a successful boot some task can always take a step; when
\* tasks that can run are run, timers fire and every publish and session run
\* completes, main and logging_task go round their loops again and again and
\* uart_recver is never left in a publish; it comes back to its ticker again
\* and again provided every serial read completes as well.
C20_NoDeadlock ==
    /\ []C20_SomeTaskCanStep
    /\ C20_MainAndHeartbeatProgress
    /\ C20_RecverProgress
    /\ ReadsComplete => []<>(flash = None \/ pc_rx = "tick")

\* All three tasks have gone round their loops: the publish of a frame and
\* that of a liveness message have returned and a session run has ended and
\* restarted.
C20_Witness ==
    /\ pc_main = "running"
    /\ runs >= 2
    /\ Len(pubRes) >= 1 /\ pubRes[1] # "pending"
    /\ Len(hbLog) >= 1 /\ hbLog[1].res # "pending"
    /\ pc_rx = "tick"
    /\ pc_log = "tick"

====
